---- MODULE Spec2Model ----
(***************************************************************************)
(* Model of src/src/c/stb_image_write.c: the growable WriteContext filled  *)
(* by write_callback, and the two adapters stb_write_png_to_memory and     *)
(* stb_write_jpg_to_memory that run the external stb encoder over it.      *)
(*                                                                         *)
(* Byte strings (heap blocks, chunks) are kept run-length encoded: a       *)
(* sequence of runs <<byte, count>> with count > 0 and no two adjacent     *)
(* runs of the same byte, so that equal byte strings are equal values.     *)
(* size_t is SizeBits wide and every size_t operation is taken modulo      *)
(* 2^SizeBits; the callback's `int size` is at most INT_MAX.               *)
(***************************************************************************)
EXTENDS Integers, Sequences, FiniteSets, TLC

\* ---------------------------------------------------------------- bounds

SizeBits == 16
MaxChunks == 3
MaxCalls == 2
NumAddrs == 3

\* ------------------------------------------------------ program constants

InitialCapacity == 4096
NULL == 0
Uninit == 256

SIZE_MOD == 2 ^ SizeBits
INT_MAX == 2 ^ (SizeBits - 1) - 1
Addrs == 1 .. NumAddrs
Results == {0, 1}

\* ------------------------------------------------------------ byte strings

Run(b, n) == IF n = 0 THEN << >> ELSE << <<b, n>> >>

RECURSIVE NBytes(_)
NBytes(s) == IF s = << >> THEN 0 ELSE s[1][2] + NBytes(Tail(s))

Cat(s, t) ==
    IF s = << >> THEN t
    ELSE IF t = << >> THEN s
    ELSE IF s[Len(s)][1] = t[1][1]
         THEN SubSeq(s, 1, Len(s) - 1)
              \o << <<t[1][1], s[Len(s)][2] + t[1][2]>> >>
              \o Tail(t)
         ELSE s \o t

RECURSIVE Take(_, _)
Take(s, k) ==
    IF k <= 0 \/ s = << >> THEN << >>
    ELSE IF s[1][2] <= k THEN Cat(<< s[1] >>, Take(Tail(s), k - s[1][2]))
    ELSE << <<s[1][1], k>> >>

RECURSIVE Drop(_, _)
Drop(s, k) ==
    IF k <= 0 \/ s = << >> THEN s
    ELSE IF s[1][2] <= k THEN Drop(Tail(s), k - s[1][2])
    ELSE << <<s[1][1], s[1][2] - k>> >> \o Tail(s)

\* The chunks the encoder may hand to the callback: (data, size) pairs with
\* size = NBytes(data) <= INT_MAX.
Chunks ==
    { << >>, Run(1, 1), Cat(Run(1, 1), Run(2, 1)), Run(1, InitialCapacity),
      Run(2, INT_MAX) }

\* ------------------------------------------------------------------- state

VARIABLES
    pc,            \* "idle" | "encoding" | "grow": where the program is
    fmt,           \* which adapter is running
    calls,         \* adapter calls started so far
    ctx,           \* the WriteContext of the running call
    chunk,         \* write_callback's (data, size) argument
    new_capacity,  \* write_callback's local
    heap,          \* the allocator's blocks
    output,        \* the caller's *output slot
    output_len,    \* the caller's *output_len slot
    ret,           \* the last adapter return value
    ub,            \* the program has run into undefined behaviour
    hist,          \* history: the completed write_callback calls of this call
    pre,           \* history: the caller's slots when the call began
    fin,           \* history: what the encoder returned, and the context then
    prev           \* history: the first adapter call's input and outcome

vars == << pc, fmt, calls, ctx, chunk, new_capacity, heap, output, output_len,
           ret, ub, hist, pre, fin, prev >>

FreeBlock == [live |-> FALSE, bytes |-> << >>, owner |-> 0]
EmptyContext == [data |-> NULL, size |-> 0, capacity |-> 0]
NoFin == [set |-> FALSE, result |-> 0, ctx |-> EmptyContext, fmt |-> "png"]
NoPrev == [set |-> FALSE, chunks |-> << >>, result |-> 0, ret |-> 0,
           bytes |-> << >>]

Init ==
    /\ pc = "idle"
    /\ fmt = "png"
    /\ calls = 0
    /\ ctx = EmptyContext
    /\ chunk = << >>
    /\ new_capacity = 0
    /\ heap = [a \in Addrs |-> FreeBlock]
    /\ output = NULL
    /\ output_len = 0
    /\ ret = 0
    /\ ub = FALSE
    /\ hist = << >>
    /\ pre = [output |-> NULL, output_len |-> 0]
    /\ fin = NoFin
    /\ prev = NoPrev

\* ------------------------------------------------------------- the library

\* realloc(p, n) that succeeds at address q: in place when q = p, else a new
\* block holding the old block's first min(old, n) bytes, the old one freed.
\* The bytes beyond the old contents are uninitialised.
ReallocAt(h, p, q, n) ==
    LET old == IF p = NULL THEN << >> ELSE h[p].bytes
        new == Cat(Take(old, n), Run(Uninit, n - NBytes(Take(old, n))))
        own == IF p # NULL /\ q = p THEN h[p].owner ELSE calls
        h1  == IF p # NULL /\ q # p THEN [h EXCEPT ![p] = FreeBlock] ELSE h
    IN  [h1 EXCEPT ![q] = [live |-> TRUE, bytes |-> new, owner |-> own]]

\* The addresses realloc(p, n) may return when it succeeds: p itself (the
\* block is resized in place) or a new block. The program only stores,
\* dereferences and NULL-tests pointers, so free addresses are interchangeable
\* and a new block is given the lowest one.
ReallocTargets(h, p) ==
    LET free == {q \in Addrs : ~h[q].live}
    IN  {q \in free : \A r \in free : q <= r}
        \cup (IF p = NULL THEN {} ELSE {p})

\* memcpy(dst + off, src, n) on the block at dst.
Memcpy(h, dst, off, src, n) ==
    [h EXCEPT ![dst].bytes =
        Cat(Cat(Take(@, off), Take(src, n)), Drop(@, off + n))]

\* Whether memcpy(dst + off, src, n) stays inside a live block. A copy of no
\* bytes touches nothing.
MemcpyInBounds(h, dst, off, n) ==
    \/ n = 0
    \/ /\ dst # NULL
       /\ h[dst].live
       /\ off + n <= NBytes(h[dst].bytes)

\* Mutant of Free: the block is never released.
FreeForgotten(h, p) == h

\* free(p).
Free(h, p) == [h EXCEPT ![p] = FreeBlock]

\* The first n bytes of the block p points to.
BlockBytes(h, p, n) == IF p = NULL THEN << >> ELSE Take(h[p].bytes, n)

\* ---------------------------------------------------------- write_callback

HistEntry(c, dropped, after) ==
    [chunk |-> c, dropped |-> dropped, before |-> ctx, after |-> after]

\* Lines 31-32 on context cx and heap h: the copy and the size update.
AppendChunk(cx, h, c) ==
    LET n == NBytes(c)
        ok == MemcpyInBounds(h, cx.data, cx.size, n)
        cx1 == [cx EXCEPT !.size = (cx.size + n) % SIZE_MOD]
    IN  /\ ctx' = cx1
        /\ heap' = IF ok /\ n > 0 THEN Memcpy(h, cx.data, cx.size, c, n) ELSE h
        /\ ub' = (ub \/ ~ok)
        /\ hist' = Append(hist, HistEntry(c, FALSE, cx1))

NeedsGrowth(cx, n) == (cx.size + n) % SIZE_MOD > cx.capacity

\* Mutant of FirstCapacity: a growth factor of 3.
FirstCapacityTripling(cx) ==
    IF cx.capacity = 0 THEN InitialCapacity ELSE (cx.capacity * 3) % SIZE_MOD

\* Line 19.
FirstCapacity(cx) ==
    IF cx.capacity = 0 THEN InitialCapacity ELSE (cx.capacity * 2) % SIZE_MOD

\* The encoder may hand chunk c to the callback now. The encoder is a
\* function of its input: the first call encodes any input, and a later call
\* encodes the same input again, so the encoder delivers the same chunks.
EncoderEmits(c) ==
    /\ Len(hist) < MaxChunks
    /\ prev.set => /\ Len(hist) < Len(prev.chunks)
                   /\ c = prev.chunks[Len(hist) + 1]

\* Entry of write_callback (lines 14-19); without growth, the whole call.
WriteCallback(c) ==
    /\ pc = "encoding"
    /\ EncoderEmits(c)
    /\ chunk' = c
    /\ IF NeedsGrowth(ctx, NBytes(c))
       THEN /\ new_capacity' = FirstCapacity(ctx)
            /\ pc' = "grow"
            /\ UNCHANGED << ctx, heap, ub, hist >>
       ELSE /\ AppendChunk(ctx, heap, c)
            /\ UNCHANGED << pc, new_capacity >>
    /\ UNCHANGED << fmt, calls, output, output_len, ret, pre, fin, prev >>

\* Mutant of LoopCondition: the loop body never runs.
LoopConditionNever == FALSE

\* Line 20.
LoopCondition == new_capacity < (ctx.size + NBytes(chunk)) % SIZE_MOD

\* One iteration of the while loop (lines 20-22).
GrowLoop ==
    /\ pc = "grow"
    /\ LoopCondition
    /\ new_capacity' = (new_capacity * 2) % SIZE_MOD
    /\ UNCHANGED << pc, fmt, calls, ctx, chunk, heap, output, output_len, ret,
                    ub, hist, pre, fin, prev >>

\* Mutant of GrowFails: realloc's result is stored before it is tested.
GrowFailsLosingBuffer ==
    /\ pc = "grow"
    /\ ~LoopCondition
    /\ pc' = "encoding"
    /\ ctx' = [ctx EXCEPT !.data = NULL]
    /\ hist' = Append(hist, HistEntry(chunk, TRUE, ctx'))
    /\ UNCHANGED << fmt, calls, chunk, new_capacity, heap, output,
                    output_len, ret, ub, pre, fin, prev >>

\* After the loop: realloc fails and the call returns (lines 23-26).
GrowFails ==
    /\ pc = "grow"
    /\ ~LoopCondition
    /\ pc' = "encoding"
    /\ hist' = Append(hist, HistEntry(chunk, TRUE, ctx))
    /\ UNCHANGED << fmt, calls, ctx, chunk, new_capacity, heap, output,
                    output_len, ret, ub, pre, fin, prev >>

\* After the loop: realloc returns q, then the copy (lines 23-32).
GrowSucceeds(q) ==
    /\ pc = "grow"
    /\ ~LoopCondition
    /\ q \in ReallocTargets(heap, ctx.data)
    /\ pc' = "encoding"
    /\ AppendChunk([ctx EXCEPT !.data = q, !.capacity = new_capacity],
                   ReallocAt(heap, ctx.data, q, new_capacity), chunk)
    /\ UNCHANGED << fmt, calls, chunk, new_capacity, output, output_len, ret,
                    pre, fin, prev >>

\* ------------------------------------------------------------ the adapters

\* Lines 42-44 and 66-68: a fresh context, then the encoder runs.
Enter(f) ==
    /\ pc = "idle"
    /\ calls < MaxCalls
    /\ pc' = "encoding"
    /\ fmt' = f
    /\ calls' = calls + 1
    /\ ctx' = EmptyContext
    /\ hist' = << >>
    /\ pre' = [output |-> output, output_len |-> output_len]
    /\ fin' = NoFin
    /\ UNCHANGED << chunk, new_capacity, heap, output, output_len, ret, ub,
                    prev >>

stb_write_png_to_memory_enter == Enter("png")

stb_write_jpg_to_memory_enter == Enter("jpg")

\* The encoder may return result now: in a later call, the first call's
\* result, once it has delivered the first call's chunks.
EncoderReturns(result) ==
    prev.set => /\ Len(hist) = Len(prev.chunks)
                /\ result = prev.result

ChunksOf(h) == [i \in 1 .. Len(h) |-> h[i].chunk]

Record(result, r, bytes) ==
    /\ fin' = [set |-> TRUE, result |-> result, ctx |-> ctx, fmt |-> fmt]
    /\ prev' = IF prev.set THEN prev
               ELSE [set |-> TRUE, chunks |-> ChunksOf(hist),
                     result |-> result, ret |-> r, bytes |-> bytes]

\* Mutant of stb_write_png_to_memory_return: ctx.size is not tested.
PngReturnIgnoringSize(result) ==
    /\ pc = "encoding"
    /\ fmt = "png"
    /\ EncoderReturns(result)
    /\ pc' = "idle"
    /\ IF result # 0
       THEN /\ output' = ctx.data
            /\ output_len' = ctx.size
            /\ ret' = 1
            /\ Record(result, 1, BlockBytes(heap, ctx.data, ctx.size))
            /\ UNCHANGED << heap, ub >>
       ELSE /\ ret' = 0
            /\ Record(result, 0, << >>)
            /\ IF ctx.data # NULL
               THEN /\ heap' = Free(heap, ctx.data)
                    /\ ub' = (ub \/ ~heap[ctx.data].live)
               ELSE UNCHANGED << heap, ub >>
            /\ UNCHANGED << output, output_len >>
    /\ UNCHANGED << fmt, calls, ctx, chunk, new_capacity, hist, pre >>

\* Mutant of stb_write_png_to_memory_return: the slots are written on the
\* failure path too.
PngReturnWritingSlots(result) ==
    /\ pc = "encoding"
    /\ fmt = "png"
    /\ EncoderReturns(result)
    /\ pc' = "idle"
    /\ IF result # 0 /\ ctx.size > 0
       THEN /\ output' = ctx.data
            /\ output_len' = ctx.size
            /\ ret' = 1
            /\ Record(result, 1, BlockBytes(heap, ctx.data, ctx.size))
            /\ UNCHANGED << heap, ub >>
       ELSE /\ ret' = 0
            /\ Record(result, 0, << >>)
            /\ IF ctx.data # NULL
               THEN /\ heap' = Free(heap, ctx.data)
                    /\ ub' = (ub \/ ~heap[ctx.data].live)
               ELSE UNCHANGED << heap, ub >>
            /\ output' = ctx.data
            /\ output_len' = ctx.size
    /\ UNCHANGED << fmt, calls, ctx, chunk, new_capacity, hist, pre >>

\* Lines 46-56: the encoder has returned result.
stb_write_png_to_memory_return(result) ==
    /\ pc = "encoding"
    /\ fmt = "png"
    /\ EncoderReturns(result)
    /\ pc' = "idle"
    /\ IF result # 0 /\ ctx.size > 0
       THEN /\ output' = ctx.data
            /\ output_len' = ctx.size
            /\ ret' = 1
            /\ Record(result, 1, BlockBytes(heap, ctx.data, ctx.size))
            /\ UNCHANGED << heap, ub >>
       ELSE /\ ret' = 0
            /\ Record(result, 0, << >>)
            /\ IF ctx.data # NULL
               THEN /\ heap' = Free(heap, ctx.data)
                    /\ ub' = (ub \/ ~heap[ctx.data].live)
               ELSE UNCHANGED << heap, ub >>
            /\ UNCHANGED << output, output_len >>
    /\ UNCHANGED << fmt, calls, ctx, chunk, new_capacity, hist, pre >>

\* Lines 70-80: the encoder has returned result.
stb_write_jpg_to_memory_return(result) ==
    /\ pc = "encoding"
    /\ fmt = "jpg"
    /\ EncoderReturns(result)
    /\ pc' = "idle"
    /\ IF result # 0 /\ ctx.size > 0
       THEN /\ output' = ctx.data
            /\ output_len' = ctx.size
            /\ ret' = 1
            /\ Record(result, 1, BlockBytes(heap, ctx.data, ctx.size))
            /\ UNCHANGED << heap, ub >>
       ELSE /\ ret' = 0
            /\ Record(result, 0, << >>)
            /\ IF ctx.data # NULL
               THEN /\ heap' = Free(heap, ctx.data)
                    /\ ub' = (ub \/ ~heap[ctx.data].live)
               ELSE UNCHANGED << heap, ub >>
            /\ UNCHANGED << output, output_len >>
    /\ UNCHANGED << fmt, calls, ctx, chunk, new_capacity, hist, pre >>

\* ----------------------------------------------------------- specification

Next ==
    \/ stb_write_png_to_memory_enter
    \/ stb_write_jpg_to_memory_enter
    \/ \E c \in Chunks : WriteCallback(c)
    \/ GrowLoop
    \/ GrowFails
    \/ \E q \in Addrs : GrowSucceeds(q)
    \/ \E r \in Results : stb_write_png_to_memory_return(r)
    \/ \E r \in Results : stb_write_jpg_to_memory_return(r)

Spec == Init /\ [][Next]_vars

\* ------------------------------------------------------ what the claims use

\* An adapter call has returned and no later call has begun.
Returned == pc = "idle" /\ fin.set

RECURSIVE SumSizes(_)
SumSizes(h) == IF h = << >> THEN 0 ELSE NBytes(h[1].chunk) + SumSizes(Tail(h))

\* The chunks of the callbacks in h, in call order, as one byte string.
RECURSIVE Concat(_)
Concat(h) == IF h = << >> THEN << >> ELSE Cat(h[1].chunk, Concat(Tail(h)))

\* The same, leaving out the chunks whose realloc returned NULL.
RECURSIVE ConcatKept(_)
ConcatKept(h) ==
    IF h = << >> THEN << >>
    ELSE Cat(IF h[1].dropped THEN << >> ELSE h[1].chunk, ConcatKept(Tail(h)))

OutputBytes == BlockBytes(heap, output, output_len)

\* The live blocks allocated by the current (or last) adapter call.
LiveOfCall == {a \in Addrs : heap[a].live /\ heap[a].owner = calls}

\* ------------------------------------------------------------------ claims

\* C1: after a call that returned 1, *output_len is the sum of the sizes of
\* all chunks the encoder passed to write_callback during the call, whatever
\* the reallocs returned.
C1_OutputLenIsSumOfChunks ==
    (Returned /\ ret = 1) => output_len = SumSizes(hist)

\* C2: after each write_callback call the first |c1|+...+|ci| bytes of
\* ctx->data are c1..ci concatenated in call order, and ctx->capacity is at
\* least that cumulative size.
C2_PrefixIsConcatenation ==
    pc = "encoding" =>
        /\ BlockBytes(heap, ctx.data, SumSizes(hist)) = Concat(hist)
        /\ ctx.capacity >= SumSizes(hist)

\* C3: an adapter returns 1 exactly when the encoder's result is non-zero and
\* ctx.size > 0 at the encoder's return, and then *output is ctx.data and
\* *output_len is ctx.size; otherwise it returns 0. The mapping does not
\* depend on which adapter ran.
C3_ReturnIffEncoderOkAndNonEmpty ==
    Returned =>
        /\ ret \in {0, 1}
        /\ ret = 1 <=> (fin.result # 0 /\ fin.ctx.size > 0)
        /\ ret = 1 => (output = fin.ctx.data /\ output_len = fin.ctx.size)

C3_Witness ==
    /\ Returned
    /\ fin.fmt = "jpg"
    /\ ret = 1
    /\ output_len > InitialCapacity
    /\ prev.ret = 0

\* C4: after a call that returned 0 the caller's *output and *output_len hold
\* the values they held when the call began.
C4_FailureLeavesSlots ==
    (Returned /\ ret = 0) =>
        (output = pre.output /\ output_len = pre.output_len)

C4_Witness ==
    /\ Returned
    /\ ret = 0
    /\ fin.result = 0
    /\ fin.ctx.size > InitialCapacity
    /\ Len(hist) = MaxChunks

\* C5: after a successful call exactly one block allocated by that call is
\* live, the one in *output; after a failed call none is; and no block was
\* freed twice.
C5_Ownership ==
    Returned =>
        /\ ~ub
        /\ IF ret = 1 THEN LiveOfCall = {output} ELSE LiveOfCall = {}

C5_Witness ==
    /\ Returned
    /\ ret = 0
    /\ calls = 2
    /\ \E i \in 1 .. Len(hist) :
          /\ hist[i].before.data # NULL
          /\ hist[i].after.data # hist[i].before.data
    /\ \E i \in 1 .. Len(hist) : hist[i].dropped

\* C6: in every state the context has size <= capacity and a non-null data
\* whenever capacity > 0, and a call starts with the empty context.
C6_ContextInvariant ==
    /\ ctx.size <= ctx.capacity
    /\ ctx.capacity > 0 => ctx.data # NULL
    /\ (pc = "encoding" /\ hist = << >>) => ctx = EmptyContext

C6_Witness ==
    /\ pc = "encoding"
    /\ Len(hist) = 3
    /\ hist[1].after.capacity > 0
    /\ hist[2].dropped
    /\ hist[3].chunk = << >>

\* base * 2^k is the least of base, 2*base, 4*base, ... that is >= need.
LeastDoubling(base, k, need) ==
    /\ base * 2 ^ k >= need
    /\ k > 0 => base * 2 ^ (k - 1) < need

\* C7: over the callbacks of a call capacity never decreases; it changes only
\* in a callback with size + n > capacity; a callback with size + n <=
\* capacity leaves capacity and data alone; and a changed capacity is
\* 4096 * 2^k (from 0) or c * 2^k with k >= 1 (from c > 0), k the smallest
\* exponent that makes it >= size + n.
C7_CapacityGrowth ==
    \A i \in 1 .. Len(hist) :
        LET e == hist[i]
            need == e.before.size + NBytes(e.chunk)
            c == e.before.capacity
        IN  /\ e.after.capacity >= c
            /\ e.after.capacity # c => (need > c /\ ~e.dropped)
            /\ need <= c => e.after.data = e.before.data
            /\ i > 1 => e.before = hist[i - 1].after
            /\ e.after.capacity # c =>
                  \E k \in 0 .. SizeBits :
                      /\ c > 0 => k >= 1
                      /\ e.after.capacity =
                            (IF c = 0 THEN InitialCapacity ELSE c) * 2 ^ k
                      /\ LeastDoubling(IF c = 0 THEN InitialCapacity ELSE 2 * c,
                                       IF c = 0 THEN k ELSE k - 1, need)

C7_Witness ==
    /\ Len(hist) = 3
    /\ hist[1].after.capacity = InitialCapacity
    /\ hist[2].after.capacity = InitialCapacity
    /\ hist[3].after.capacity = 8 * InitialCapacity

\* C8: a second adapter call in which the encoder delivers the same chunks
\* and reports the same result as in the first returns the same value and,
\* on success, the same bytes and length.
C8_Determinism ==
    (Returned /\ calls >= 2 /\ ChunksOf(hist) = prev.chunks
              /\ fin.result = prev.result) =>
        /\ ret = prev.ret
        /\ ret = 1 => (OutputBytes = prev.bytes
                       /\ output_len = NBytes(prev.bytes))

\* C9: a callback whose realloc returned NULL leaves data, size and capacity
\* as they were and the buffer valid; only such a callback drops its chunk;
\* the buffer holds, in order, exactly the chunks not dropped; and an encoder
\* success with size > 0 is then returned as success with these bytes.
C9_SilentDrop ==
    /\ \A i \in 1 .. Len(hist) :
          LET e == hist[i]
              n == NBytes(e.chunk)
          IN  /\ e.dropped => (e.after = e.before
                               /\ e.before.size + n > e.before.capacity)
              /\ ~e.dropped => e.after.size = e.before.size + n
    /\ pc = "encoding" =>
          /\ ctx.data # NULL => heap[ctx.data].live
          /\ ctx.size = NBytes(ConcatKept(hist))
          /\ BlockBytes(heap, ctx.data, ctx.size) = ConcatKept(hist)
    /\ (Returned /\ fin.result # 0 /\ fin.ctx.size > 0) =>
          /\ ret = 1
          /\ heap[output].live
          /\ OutputBytes = ConcatKept(hist)

C9_Witness ==
    /\ Returned
    /\ ret = 1
    /\ Len(hist) = 3
    /\ ~hist[1].dropped /\ NBytes(hist[1].chunk) > 0
    /\ hist[2].dropped
    /\ ~hist[3].dropped /\ NBytes(hist[3].chunk) > 0
    /\ output_len < SumSizes(hist)

\* C10: the capacity-doubling loop of write_callback terminates: while it
\* runs new_capacity is not wrapped around (it exceeds the old capacity) and
\* every iteration strictly increases it, so it reaches size + n.
C10_LoopTerminates ==
    pc = "grow" =>
        /\ new_capacity > ctx.capacity
        /\ LoopCondition => (new_capacity * 2) % SIZE_MOD > new_capacity

====
